---- MODULE Spec2Model ----
(***************************************************************************)
(* NEXUS AI vehicle analytics demo (script.js): the telemetry simulator    *)
(* MockOBDSimulator, the inference engine MLInferenceEngine and the three  *)
(* timer callbacks that drive them.                                        *)
(*                                                                         *)
(* Numbers.  The program computes in IEEE-754 doubles.  Here every         *)
(* quantity lives on a fixed-point grid: 1/100 of its unit (Centi) for     *)
(* speed, throttle, load, coolant, battery, fuelEff and the scores, 1 rpm  *)
(* for the rpm channel, 1/RulUnit km for the RUL counter.  On these grids  *)
(* all increments, floors and ceilings of the program are exact.  A        *)
(* product that leaves the grid is cut back to it (\div), one operation at *)
(* a time, as each double operation is rounded on its own.                 *)
(***************************************************************************)
EXTENDS Integers, Sequences, FiniteSets, TLC

\* ------------------------------------------------------------- constants
HISTORY_SIZE == 100

Centi == 100

RulUnit == 50000

Channels == {"rpm", "speed", "load", "coolant", "throttle", "fuelEff"}

\* ---------------------------------------------------------------- bounds
\* ticks explored by Spec (all draws free)
MaxTicks == 3

\* ticks explored by SpecDrive (mode flips free, rpm jitter and battery ripple quiet)
MaxDriveTicks == 118

\* inference calls explored by Spec
MaxInfer == 2

\* ticks explored by SpecSnap
MaxSnapTicks == 2

\* objects a caller holds in SpecSnap
MaxHeld == 2

\* writes a caller makes in SpecSnap
MaxWrites == 1

\* inference calls explored by SpecInfer
MaxInferCalls == 2

\* ------------------------------------------------------ inputs (draws)
\* what a caller writes into an object it holds, and where
WriteValue == -1

WriteFields == {"rpm", "battery"}
\* Math.random() in hundredths, for the mode flip (line 28)
FlipDraws == {50, 96}

\* (Math.random() - 0.5) * 30 on the rpm grid: [-15, 15)
JitterDraws == {-15, 0, 14}

\* Math.sin(Date.now() / 1000) in hundredths
SinDraws == {-100, 100}

\* Math.random() in hundredths, for the NORMAL confidence (line 103)
ConfDraws == {0, 99}

VARIABLES
    state,          \* MockOBDSimulator.state
    target,         \* MockOBDSimulator.target
    history,        \* MockOBDSimulator.history
    isAccelerating, \* MockOBDSimulator.isAccelerating
    accelCounter,   \* MockOBDSimulator.accelCounter
    rulKms,         \* MLInferenceEngine.rulKms, in 1/RulUnit km
    result,         \* <<>> or <<r>>: the last value returned by runInference()
    onAiPage,       \* the page has the AI elements (updateAI's guard)
    held,           \* objects a caller of getData() holds on to
    nTicks,         \* number of tick() calls so far
    lastFlip,       \* nTicks at the last mode flip (0: none yet)
    nInfer,         \* number of runInference() calls so far
    nWrites         \* number of writes a caller made to an object it holds

vars == <<state, target, history, isAccelerating, accelCounter, rulKms, result,
          onAiPage, held, nTicks, lastFlip, nInfer, nWrites>>

\* ------------------------------------------------------------- helpers
Min(a, b) == IF a < b THEN a ELSE b

Max(a, b) == IF a > b THEN a ELSE b

Fill(n, v) == [i \in 1..n |-> v]

Last(s) == s[Len(s)]

\* ------------------------------------------------------ MockOBDSimulator
InitState ==
    [rpm |-> 1000, speed |-> 0, throttle |-> 0, load |-> 20 * Centi,
     coolant |-> 90 * Centi, battery |-> 1380, fuelEff |-> 850]

InitHistory ==
    [rpm |-> Fill(HISTORY_SIZE, 1000), speed |-> Fill(HISTORY_SIZE, 0),
     load |-> Fill(HISTORY_SIZE, 20 * Centi), coolant |-> Fill(HISTORY_SIZE, 90 * Centi),
     throttle |-> Fill(HISTORY_SIZE, 0), fuelEff |-> Fill(HISTORY_SIZE, 850)]

\* lerp(start, end, amt), amt in hundredths: (1 - amt) * start + amt * end
lerp(start, end, amt) == ((100 - amt) * start) \div 100 + (amt * end) \div 100

\* as Flips, without the debounce on the counter
FlipsNoDebounce(counter, r) == r > 95

\* lines 27-31: the counter after the increment, and whether the mode flips
Flips(counter, r) == counter + 1 > 50 /\ r > 95

\* lines 32-47: the target after the mode's push, the rpm jitter and the coolant rule
NextTarget(tg, st, acc, jitter) ==
    LET pushed ==
            IF acc
            THEN [tg EXCEPT !.throttle = Min(tg.throttle + 2 * Centi, 85 * Centi),
                            !.rpm = Min(tg.rpm + 60, 5500),
                            !.speed = Min(tg.speed + 80, 140 * Centi),
                            !.load = Min(tg.load + 150, 95 * Centi),
                            !.fuelEff = Min(tg.fuelEff + 50, 25 * Centi)]
            ELSE [tg EXCEPT !.throttle = Max(tg.throttle - 3 * Centi, 0),
                            !.rpm = Max(tg.rpm - 80, 800),
                            !.speed = Max(tg.speed - 40, 0),
                            !.load = Max(tg.load - 2 * Centi, 15 * Centi),
                            !.fuelEff = Max(tg.fuelEff - 20, 450)]
    IN  [pushed EXCEPT !.rpm = pushed.rpm + jitter,
                       !.coolant = IF st.load > 70 * Centi
                                   THEN tg.coolant + 2
                                   ELSE Max(tg.coolant - 1, 88 * Centi)]

\* as NextState, with a battery ripple of 2.0 in place of 0.2
NextStateDeepRipple(st, tg, sin) ==
    [rpm |-> lerp(st.rpm, tg.rpm, 8),
     speed |-> lerp(st.speed, tg.speed, 4),
     throttle |-> lerp(st.throttle, tg.throttle, 10),
     load |-> lerp(st.load, tg.load, 8),
     coolant |-> lerp(st.coolant, tg.coolant, 5),
     fuelEff |-> lerp(st.fuelEff, tg.fuelEff, 5),
     battery |-> 1350 + (sin * 200) \div 100]

\* lines 48-54: the smoothed state moves toward the target; battery is recomputed
NextState(st, tg, sin) ==
    [rpm |-> lerp(st.rpm, tg.rpm, 8),
     speed |-> lerp(st.speed, tg.speed, 4),
     throttle |-> lerp(st.throttle, tg.throttle, 10),
     load |-> lerp(st.load, tg.load, 8),
     coolant |-> lerp(st.coolant, tg.coolant, 5),
     fuelEff |-> lerp(st.fuelEff, tg.fuelEff, 5),
     battery |-> 1350 + (sin * 20) \div 100]

\* as PushShift, without the shift
PushNoShift(arr, v) == Append(arr, v)

\* lines 57-64: push the new value, shift the oldest out
PushShift(arr, v) == Tail(Append(arr, v))

\* as updateHistory, with the fuelEff line left out
updateHistorySkipsFuelEff(h, st) ==
    [rpm |-> PushShift(h.rpm, st.rpm),
     speed |-> PushShift(h.speed, st.speed),
     load |-> PushShift(h.load, st.load),
     coolant |-> PushShift(h.coolant, st.coolant),
     throttle |-> PushShift(h.throttle, st.throttle),
     fuelEff |-> h.fuelEff]

updateHistory(h, st) ==
    [rpm |-> PushShift(h.rpm, st.rpm),
     speed |-> PushShift(h.speed, st.speed),
     load |-> PushShift(h.load, st.load),
     coolant |-> PushShift(h.coolant, st.coolant),
     throttle |-> PushShift(h.throttle, st.throttle),
     fuelEff |-> PushShift(h.fuelEff, st.fuelEff)]

\* lines 26-56
tick(r, jitter, sin) ==
    LET flip == Flips(accelCounter, r)
        acc == IF flip THEN ~isAccelerating ELSE isAccelerating
        tg == NextTarget(target, state, acc, jitter)
        st == NextState(state, tg, sin)
    IN  /\ isAccelerating' = acc
        /\ accelCounter' = IF flip THEN 0 ELSE accelCounter + 1
        /\ target' = tg
        /\ state' = st
        /\ history' = updateHistory(history, st)
        /\ nTicks' = nTicks + 1
        /\ lastFlip' = IF acc # isAccelerating THEN nTicks + 1 ELSE lastFlip

\* as getData, returning the live record itself
getDataLive(st) == [live |-> TRUE, fields |-> st]

\* line 66: getData() returns a fresh object holding a copy of the fields
getData(st) == [live |-> FALSE, fields |-> st]

\* line 67
getHistory(h) == h

\* -------------------------------------------------------- MLInferenceEngine
\* the sum of s[lo..hi]
RECURSIVE SumRange(_, _, _)
SumRange(s, lo, hi) ==
    IF lo > hi THEN 0
    ELSE IF lo = hi THEN s[lo]
    ELSE LET mid == (lo + hi) \div 2
         IN  SumRange(s, lo, mid) + SumRange(s, mid + 1, hi)

\* arr.reduce((a, b) => a + b)
Sum(s) == SumRange(s, 1, Len(s))

\* Math.round on the Centi grid: the nearest integer, halves up
Round(x) == (x + 50) \div 100

\* Math.sqrt, cut to an integer
RECURSIVE SqrtBetween(_, _, _)
SqrtBetween(v, lo, hi) ==
    IF lo = hi THEN lo
    ELSE LET mid == (lo + hi + 1) \div 2
         IN  IF mid * mid <= v THEN SqrtBetween(v, mid, hi) ELSE SqrtBetween(v, lo, mid - 1)

Sqrt(v) == SqrtBetween(v, 0, 46340)

\* as ArraySlice, with splice: the last n entries are cut out of arr
ArraySplice(arr, n) ==
    [ret |-> SubSeq(arr, Max(1, Len(arr) - n + 1), Len(arr)),
     arr |-> SubSeq(arr, 1, Max(0, Len(arr) - n))]

\* line 90: arr.slice(-n) returns the last n entries and leaves arr as it is
ArraySlice(arr, n) ==
    [ret |-> SubSeq(arr, Max(1, Len(arr) - n + 1), Len(arr)), arr |-> arr]

\* as calculateVariance, with the sample divisor N - 1
calculateVarianceSample(arr) ==
    LET mean == Sum(arr) \div Len(arr)
        sq == [i \in 1..Len(arr) |-> (arr[i] - mean) * (arr[i] - mean)]
    IN  Sum(sq) \div (Len(arr) - 1)

\* lines 136-139
calculateVariance(arr) ==
    LET mean == Sum(arr) \div Len(arr)
        sq == [i \in 1..Len(arr) |-> (arr[i] - mean) * (arr[i] - mean)]
    IN  Sum(sq) \div Len(arr)

\* as calculateAggression, with the falls counted like the rises
calculateAggressionAbs(arr) ==
    LET step == [i \in 1..(Len(arr) - 1) |->
                    IF arr[i + 1] > arr[i] THEN arr[i + 1] - arr[i] ELSE arr[i] - arr[i + 1]]
        sumDelta == Sum(step)
    IN  Min(100 * Centi, sumDelta * 2)

\* lines 140-148
calculateAggression(arr) ==
    LET rise == [i \in 1..(Len(arr) - 1) |->
                    IF arr[i + 1] > arr[i] THEN arr[i + 1] - arr[i] ELSE 0]
        sumDelta == Sum(rise)
    IN  Min(100 * Centi, sumDelta * 2)

\* as Degradation, with the sign of the update turned
DegradationNegated(load) == 0 - (load * 2 * RulUnit) \div (Centi * 100 * 10)

\* lines 95-96: (load / 100) * 2 * 0.1 km, in 1/RulUnit km
Degradation(load) == (load * 2 * RulUnit) \div (Centi * 100 * 10)

\* as Classify, with the ERRATIC rule tried before the ECO rule
ClassifyErraticFirst(throttleAggression, speed, rpmVol, c) ==
    IF throttleAggression > 60 * Centi
    THEN [type |-> "AGGRESSIVE", conf |-> 92 * Centi,
          insight |-> "High throttle aggression detected. Impact on fuel +12%."]
    ELSE IF rpmVol > 8 * Centi
    THEN [type |-> "ERRATIC", conf |-> 78 * Centi,
          insight |-> "Unstable RPM detected. Check transmission linkage."]
    ELSE IF throttleAggression < 20 * Centi /\ speed > 30 * Centi
    THEN [type |-> "ECO - OPTIMAL", conf |-> 96 * Centi,
          insight |-> "Smooth acceleration profile. Fuel efficiency maximized."]
    ELSE [type |-> "NORMAL", conf |-> 85 * Centi + c * 10,
          insight |-> "Behavior within normal baseline."]

\* lines 102-118: the driver class, the confidence before rounding (Centi), the insight
Classify(throttleAggression, speed, rpmVol, c) ==
    IF throttleAggression > 60 * Centi
    THEN [type |-> "AGGRESSIVE", conf |-> 92 * Centi,
          insight |-> "High throttle aggression detected. Impact on fuel +12%."]
    ELSE IF throttleAggression < 20 * Centi /\ speed > 30 * Centi
    THEN [type |-> "ECO - OPTIMAL", conf |-> 96 * Centi,
          insight |-> "Smooth acceleration profile. Fuel efficiency maximized."]
    ELSE IF rpmVol > 8 * Centi
    THEN [type |-> "ERRATIC", conf |-> 78 * Centi,
          insight |-> "Unstable RPM detected. Check transmission linkage."]
    ELSE [type |-> "NORMAL", conf |-> 85 * Centi + c * 10,
          insight |-> "Behavior within normal baseline."]

\* lines 75-135: the returned result, the counter and the history after the call
runInference(st, h, rul, c) ==
    LET data == getData(st).fields
        hist == getHistory(h)
        thermalHealth == IF data.coolant > 100 * Centi
                         THEN 100 * Centi - (data.coolant - 100 * Centi) * 5
                         ELSE 100 * Centi
        engineHealth == 100 * Centi - (IF data.rpm > 4500 THEN 5 * Centi ELSE 0)
                                    - (IF data.load > 90 * Centi THEN 2 * Centi ELSE 0)
        elecHealth == 100 * Centi - (IF data.battery < 1280 THEN 10 * Centi ELSE 0)
        hygieneScore == Round((thermalHealth * 40) \div 100 + (engineHealth * 40) \div 100
                              + (elecHealth * 20) \div 100)
        sliced == ArraySlice(hist.rpm, 20)
        recentRpm == sliced.ret
        rpmVariance == calculateVariance(recentRpm)
        isAnomaly == rpmVariance > 5000
        rulAfter == rul - Degradation(data.load)
        throttleAggression == calculateAggression(hist.throttle)
        rpmVol == Sqrt(rpmVariance)
        driver == Classify(throttleAggression, data.speed, rpmVol, c)
    IN  [result |->
            [scores |-> [hygiene |-> hygieneScore, thermal |-> thermalHealth,
                         engine |-> engineHealth, electrical |-> elecHealth],
             rul |-> [val |-> rulAfter \div RulUnit,
                      prob |-> IF data.coolant > 102 * Centi THEN "High" ELSE "Low"],
             anomaly |-> isAnomaly,
             driver |-> [type |-> driver.type,
                         conf |-> Round(driver.conf),
                         feat |-> [throttle |-> Round(throttleAggression),
                                   rpmVol |-> (rpmVol + 5) \div 10,
                                   eff |-> Round(100 * Centi - (throttleAggression * 60) \div 100)],
                         insight |-> driver.insight]],
         rulKms |-> rulAfter,
         history |-> [hist EXCEPT !.rpm = sliced.arr]]

\* ------------------------------------------------------------- callbacks
\* line 495: sim.tick(); ui.updateFast()
TimerFast ==
    /\ \E r \in FlipDraws, jitter \in JitterDraws, sin \in SinDraws : tick(r, jitter, sin)
    /\ UNCHANGED <<rulKms, result, onAiPage, held, nInfer, nWrites>>

\* line 495 with the rpm jitter and the battery ripple at rest
DriveStep ==
    /\ \E r \in FlipDraws : tick(r, 0, 0)
    /\ UNCHANGED <<rulKms, result, onAiPage, held, nInfer, nWrites>>

\* line 496: ui.updateMedium() reads a snapshot and writes it to the page
TimerMedium ==
    /\ getData(state).fields = state
    /\ UNCHANGED vars

\* line 497: ui.updateAI()
TimerAI ==
    IF ~onAiPage
    THEN UNCHANGED vars
    ELSE \E c \in ConfDraws :
            LET out == runInference(state, history, rulKms, c)
            IN  /\ result' = <<out.result>>
                /\ rulKms' = out.rulKms
                /\ history' = out.history
                /\ nInfer' = nInfer + 1
                /\ UNCHANGED <<state, target, isAccelerating, accelCounter, onAiPage,
                               held, nTicks, lastFlip, nWrites>>

\* the fields seen through a reference to an object returned by getData(), when the
\* simulator's record is st
Deref(o, st) == IF o.live THEN st ELSE o.fields

\* a caller (as updateFast, line 300) calls getData() and keeps the returned object
ClientGetData ==
    /\ Len(held) < MaxHeld
    /\ held' = Append(held, [obj |-> getData(state), at |-> nTicks, dirty |-> FALSE])
    /\ UNCHANGED <<state, target, history, isAccelerating, accelCounter, rulKms, result,
                   onAiPage, nTicks, lastFlip, nInfer, nWrites>>

\* a caller assigns to a field of an object it got from getData()
ClientWrite ==
    /\ nWrites < MaxWrites
    /\ \E i \in 1..Len(held), f \in WriteFields :
          IF held[i].obj.live
          THEN /\ state' = [state EXCEPT ![f] = WriteValue]
               /\ held' = [held EXCEPT ![i].dirty = TRUE]
          ELSE /\ state' = state
               /\ held' = [held EXCEPT ![i].obj.fields[f] = WriteValue, ![i].dirty = TRUE]
    /\ nWrites' = nWrites + 1
    /\ UNCHANGED <<target, history, isAccelerating, accelCounter, rulKms, result,
                   onAiPage, nTicks, lastFlip, nInfer>>

Init ==
    /\ state = InitState
    /\ target = InitState
    /\ history = InitHistory
    /\ isAccelerating = FALSE
    /\ accelCounter = 0
    /\ rulKms = 15000 * RulUnit
    /\ result = <<>>
    /\ onAiPage \in BOOLEAN
    /\ held = <<>>
    /\ nTicks = 0
    /\ lastFlip = 0
    /\ nInfer = 0
    /\ nWrites = 0

Next ==
    \/ (nTicks < MaxTicks /\ TimerFast)
    \/ TimerMedium
    \/ (nInfer < MaxInfer /\ TimerAI)

Spec == Init /\ [][Next]_vars

NextDrive == nTicks < MaxDriveTicks /\ DriveStep

SpecDrive == Init /\ [][NextDrive]_vars
NextSnap ==
    \/ (nTicks < MaxSnapTicks /\ TimerFast)
    \/ ClientGetData
    \/ ClientWrite

SpecSnap == Init /\ [][NextSnap]_vars

\* ---- inputs of runInference() as a function of the record and the history ----
\* the last n samples rise by step each, the ones before are at base
Ramp(base, step, n) ==
    [i \in 1..HISTORY_SIZE |->
        IF i <= HISTORY_SIZE - n THEN base ELSE base + step * (i - (HISTORY_SIZE - n))]

\* the last n samples alternate between a and b, the ones before are at old
Alternating(old, a, b, n) ==
    [i \in 1..HISTORY_SIZE |->
        IF i <= HISTORY_SIZE - n THEN old ELSE IF i % 2 = 0 THEN a ELSE b]

ThrottleInputs ==
    {Ramp(0, 0, 0), Ramp(0, 100, 5), Ramp(0, 100, 10), Ramp(0, 100, 30),
     Ramp(0, 100, 31), Ramp(0, 500, 17), Ramp(0, 500, 20),
     Ramp(85 * Centi, -100, 10), Alternating(0, 0, 400, 20)}

RpmInputs ==
    {Fill(HISTORY_SIZE, 2000)}
    \cup UNION {{Alternating(old, 800, 2600, 20), Alternating(old, 800, 2400, 20),
                 Alternating(old, 800, 2402, 20), Alternating(old, 2000, 2141, 20),
                 Alternating(old, 2000, 2142, 20), Alternating(old, 2000, 2000, 20)}
                : old \in {1000, 5000}}

SpeedInputs == {0, 30 * Centi, 30 * Centi + 1, 60 * Centi}

InitInfer ==
    /\ \E rpms \in RpmInputs, thr \in ThrottleInputs, speed \in SpeedInputs :
          /\ history = [InitHistory EXCEPT !.rpm = rpms, !.throttle = thr,
                                           !.speed = Fill(HISTORY_SIZE, speed)]
          /\ state = [InitState EXCEPT !.rpm = Last(rpms), !.throttle = Last(thr),
                                       !.speed = speed]
          /\ target = [InitState EXCEPT !.rpm = Last(rpms), !.throttle = Last(thr),
                                        !.speed = speed]
    /\ isAccelerating = FALSE
    /\ accelCounter = 0
    /\ rulKms = 15000 * RulUnit
    /\ result = <<>>
    /\ onAiPage = TRUE
    /\ held = <<>>
    /\ nTicks = 0
    /\ lastFlip = 0
    /\ nInfer = 0
    /\ nWrites = 0

NextInfer == nInfer < MaxInferCalls /\ TimerAI

SpecInfer == InitInfer /\ [][NextInfer]_vars

\* ------------------------------------------------------------------ claims
InRange(x, lo, hi) == lo <= x /\ x <= hi

\* C1: after any number of tick() calls, under any sequence of mode flips, the
\* target and the smoothed state of throttle, speed, load and fuelEff stay inside
\* their documented ranges [0,85], [0,140], [15,95] and [4.5,25].
C1_BoundedFieldsInRange ==
    \A rec \in {target, state} :
        /\ InRange(rec.throttle, 0, 85 * Centi)
        /\ InRange(rec.speed, 0, 140 * Centi)
        /\ InRange(rec.load, 15 * Centi, 95 * Centi)
        /\ InRange(rec.fuelEff, 450, 25 * Centi)

\* C2: after every tick() call the rpm target is within [800, 5500].
C2_RpmTargetInRange == nTicks >= 1 => InRange(target.rpm, 800, 5500)

\* C3: every channel's history always has exactly HISTORY_SIZE entries, and each
\* tick() drops the oldest entry and appends the channel's new state value.
C3_HistoryFifo ==
    /\ [](\A ch \in Channels : Len(history[ch]) = HISTORY_SIZE)
    /\ [][nTicks' = nTicks + 1 =>
            \A ch \in Channels : history'[ch] = Append(Tail(history[ch]), state'[ch])]_vars

C3_Witness ==
    /\ nTicks >= 2
    /\ history.rpm[HISTORY_SIZE - 1] # history.rpm[HISTORY_SIZE]
    /\ history.rpm[HISTORY_SIZE - 2] = 1000

\* the reported rul.val of the last result, 15000 before the first call
LastRulVal(res) == IF res = <<>> THEN 15000 ELSE res[1].rul.val

\* C4: the RUL counter starts at 15000 km, no step ever raises it, each
\* runInference() call lowers it by 0.1 x (load / 100) x 2 km, and the reported
\* rul.val never increases from one call to the next.
C4_RulMonotone ==
    /\ [](nInfer = 0 => rulKms = 15000 * RulUnit)
    /\ [][rulKms' <= rulKms]_vars
    /\ [][nInfer' = nInfer + 1 =>
            /\ (rulKms - rulKms') * Centi * 1000 = 2 * state.load * RulUnit
            /\ rulKms' < rulKms
            /\ result'[1].rul.val <= LastRulVal(result)
            /\ result'[1].rul.val * RulUnit <= rulKms'
            /\ rulKms' < (result'[1].rul.val + 1) * RulUnit]_vars

C4_Witness ==
    /\ nInfer = 2
    /\ nTicks >= 1
    /\ rulKms < 15000 * RulUnit - 2 * 15 * Centi
    /\ result[1].rul.val = 14999

\* C6: the drive mode starts at DECELERATING with the counter at 0, flips only in a
\* tick() whose incremented counter exceeds 50, a flip resets the counter to 0, and
\* a flip comes at least 51 tick() calls after the previous flip or the start.
C6_FlipDebounce ==
    /\ [](nTicks = 0 => ~isAccelerating /\ accelCounter = 0)
    /\ [][isAccelerating' # isAccelerating =>
            /\ nTicks' = nTicks + 1
            /\ accelCounter + 1 > 50
            /\ accelCounter' = 0
            /\ nTicks' - lastFlip >= 51]_vars

C6_Witness == lastFlip >= 102 /\ ~isAccelerating /\ accelCounter > 0

\* C7: in every state between two callbacks, that is whenever a reader runs, the
\* newest history entry of each channel is the channel's current state value.
C7_ReadersSeeWholeStep == \A ch \in Channels : Last(history[ch]) = state[ch]

C7_Witness == nTicks >= 2 /\ nInfer >= 1 /\ state.rpm # 1000 /\ state.load # 20 * Centi

\* C10: a runInference() call leaves the state record, the target record, the
\* drive mode, the tick counter and the six histories as they were, and the
\* histories change in no step other than a tick().
C10_InferenceFrame ==
    /\ [][nInfer' # nInfer =>
            UNCHANGED <<state, target, isAccelerating, accelCounter, history>>]_vars
    /\ [][history' # history => nTicks' = nTicks + 1]_vars

C10_Witness == nInfer >= 1 /\ nTicks >= 1 /\ rulKms < 15000 * RulUnit

\* C5: getData() returns a copy: the object it returns holds the record's current
\* values and the call changes nothing, so two calls with no tick() between them
\* return equal values; an object taken before a tick() shows the same values
\* after it; and a write to a returned object leaves the simulator's record, and
\* with it every later snapshot, and every other returned object as they were.
C5_SnapshotIsCopy ==
    /\ [][Len(held') > Len(held) =>
            /\ Deref(Last(held').obj, state') = state
            /\ state' = state]_vars
    /\ [](\A i, j \in 1..Len(held) :
            held[i].at = held[j].at /\ ~held[i].dirty /\ ~held[j].dirty =>
                Deref(held[i].obj, state) = Deref(held[j].obj, state))
    /\ [][nTicks' = nTicks + 1 =>
            \A i \in 1..Len(held) : Deref(held'[i].obj, state') = Deref(held[i].obj, state)]_vars
    /\ [][nWrites' = nWrites + 1 =>
            /\ state' = state
            /\ getData(state').fields = state
            /\ Cardinality({i \in 1..Len(held) :
                    Deref(held'[i].obj, state') # Deref(held[i].obj, state)}) <= 1]_vars

C5_Witness ==
    /\ Len(held) = 2
    /\ held[1].at = 0 /\ held[1].dirty
    /\ held[2].at = 2 /\ ~held[2].dirty
    /\ nTicks = 2
    /\ held[1].obj.fields.load # state.load
    /\ held[2].obj.fields = state

\* the features runInference() classifies by, from the record and the history
RecentRpm == SubSeq(history.rpm, HISTORY_SIZE - 19, HISTORY_SIZE)

Aggression == calculateAggression(history.throttle)

Volatility == Sqrt(calculateVariance(RecentRpm))

\* C8: runInference() classifies by a first-match-wins cascade: AGGRESSIVE with
\* confidence 92 when throttleAggression > 60; otherwise ECO - OPTIMAL with 96 when
\* throttleAggression < 20 and speed > 30; otherwise ERRATIC with 78 when
\* rpmVolatility > 8; otherwise NORMAL with a rounded confidence of 85 to 95.
C8_ClassifierCascade ==
    result # <<>> =>
        LET d == result[1].driver
            aggressive == Aggression > 60 * Centi
            eco == Aggression < 20 * Centi /\ state.speed > 30 * Centi
            erratic == Volatility > 8 * Centi
        IN  /\ aggressive => d.type = "AGGRESSIVE" /\ d.conf = 92
            /\ ~aggressive /\ eco => d.type = "ECO - OPTIMAL" /\ d.conf = 96
            /\ ~aggressive /\ ~eco /\ erratic => d.type = "ERRATIC" /\ d.conf = 78
            /\ ~aggressive /\ ~eco /\ ~erratic => d.type = "NORMAL" /\ d.conf \in 85..95

C8_Witness ==
    /\ result # <<>>
    /\ result[1].driver.type = "ECO - OPTIMAL"
    /\ Volatility > 8 * Centi

\* the sum of (w[i] - w[j])^2 over the pairs i < j: Len(w)^2 times the population
\* variance of w
PairSq(w) ==
    LET n == Len(w)
        sq == [k \in 1..(n * n) |->
                 LET i == (k - 1) \div n + 1
                     j == ((k - 1) % n) + 1
                 IN  IF i < j THEN (w[i] - w[j]) * (w[i] - w[j]) ELSE 0]
    IN  Sum(sq)

\* C9: the window runInference() looks at holds the 20 newest rpm samples, and
\* anomaly is reported exactly when their population variance (divisor 20) exceeds
\* 5000, to within the 1 rpm^2 of the grid; 20 equal samples give variance 0 and
\* no anomaly.
C9_AnomalyIsVariance ==
    /\ Len(ArraySlice(history.rpm, 20).ret) = 20
    /\ result # <<>> =>
          LET w == RecentRpm
              n == 20
          IN  /\ PairSq(w) >= 5001 * n * n => result[1].anomaly
              /\ result[1].anomaly => PairSq(w) > 5000 * n * n
              /\ n * n * (calculateVariance(w) - 1) < PairSq(w)
              /\ PairSq(w) < n * n * (calculateVariance(w) + 1)
              /\ (\A i \in 1..n : w[i] = w[1]) =>
                    calculateVariance(w) = 0 /\ ~result[1].anomaly

C9_Witness ==
    /\ result # <<>>
    /\ result[1].anomaly
    /\ history.rpm[1] = 5000
    /\ calculateVariance(RecentRpm) < 5100

\* the sum of |arr[i+1] - arr[i]| over the consecutive pairs of arr
AbsSteps(arr) ==
    Sum([i \in 1..(Len(arr) - 1) |->
            IF arr[i + 1] > arr[i] THEN arr[i + 1] - arr[i] ELSE arr[i] - arr[i + 1]])

\* twice the sum of the rises of arr: the rises less the falls are last - first,
\* the rises plus the falls are AbsSteps
TwiceRises(arr) == AbsSteps(arr) + arr[Len(arr)] - arr[1]

\* 20 consecutive samples of arr, each 5 above the one before
RisesByFive(arr) ==
    \E k \in 1..(Len(arr) - 19) :
        \A i \in k..(k + 18) : arr[i + 1] = arr[i] + 5 * Centi

\* C11: throttleAggression is min(100, 2 x the sum of the increases between
\* consecutive throttle samples): it lies in [0,100], a pair whose later value is
\* not larger adds nothing, and a history that rises by 5 at each of 20 consecutive
\* samples gives throttleAggression 100 and AGGRESSIVE with confidence 92.
C11_AggressionIsCappedRiseSum ==
    result # <<>> =>
        LET th == history.throttle
            d == result[1].driver
        IN  /\ Aggression = Min(100 * Centi, TwiceRises(th))
            /\ Aggression \in 0..(100 * Centi)
            /\ d.feat.throttle = Round(Min(100 * Centi, TwiceRises(th)))
            /\ d.feat.throttle \in 0..100
            /\ (\A i \in 1..(Len(th) - 1) : th[i + 1] <= th[i]) => d.feat.throttle = 0
            /\ RisesByFive(th) =>
                    /\ Aggression = 100 * Centi
                    /\ d.feat.throttle = 100
                    /\ d.type = "AGGRESSIVE"
                    /\ d.conf = 92

C11_Witness ==
    /\ result # <<>>
    /\ RisesByFive(history.throttle)
    /\ TwiceRises(history.throttle) = 200 * Centi
    /\ result[1].driver.feat.throttle = 100
    /\ result[1].driver.type = "AGGRESSIVE"
    /\ result[1].driver.conf = 92

\* C12: in every state reached from construction by tick() calls the battery is
\* at least 13.3 (13.8 at construction, 13.5 +/- 0.2 after a tick), so the
\* electrical penalty for battery < 12.8 never applies and every runInference()
\* result has scores.electrical = 100.
C12_BatteryNeverPenalised ==
    /\ state.battery >= 1330
    /\ state.battery <= 1380
    /\ nTicks = 0 => state.battery = 1380
    /\ nTicks > 0 => state.battery \in 1330..1370
    /\ result # <<>> => result[1].scores.electrical = 100 * Centi

\* an inference run on the record of a tick that left the battery at its floor:
\* the wear subtracted is that of the record's load, which a tick has moved
C12_Witness ==
    /\ nTicks >= 1
    /\ nInfer = 1
    /\ result # <<>>
    /\ state.battery = 1330
    /\ state.load # InitState.load
    /\ rulKms = 15000 * RulUnit - Degradation(state.load)
    /\ result[1].scores.electrical = 100 * Centi
====
